---- MODULE Spec2Model ----
(***************************************************************************)
(* 3D Euclidean distance transform of vialib/EuclideanDist3d.c:            *)
(* VEuclideanDist3d (the dispatcher) and its two engines VEDistFloat3d and *)
(* VEDistShort3d, each a pipeline of a column pass, a row pass, a band     *)
(* pass and a finalization over the destination image.                     *)
(*                                                                         *)
(* A voxel is <<b, r, c>> (band, row, column), 0-based as in the code.     *)
(* The destination holds squared distances (integers, exact in both pixel  *)
(* types within the extents modelled) until the finalization.  The float   *)
(* engine's final pixel, sqrt(x), is held in fixed point as the integer    *)
(* floor(FScale * sqrt(x)); the short engine's final pixel is the integer  *)
(* VRint(10 * sqrt(x)).                                                    *)
(***************************************************************************)
EXTENDS Integers, FiniteSets, Sequences

VARIABLES pc, srcRepn, repn, nbands, nrows, ncols, src, supplied, dest,
          invoked, err, ret

vars == <<pc, srcRepn, repn, nbands, nrows, ncols, src, supplied, dest,
          invoked, err, ret>>

(* ---------------- bounds of the model ---------------- *)
MaxBands == 3
MaxRows == 3
MaxCols == 3
MaxVoxels == 9
FScale == 1000

(* ---------------- program constants ---------------- *)
\* dmax = (VShort) VPixelMaxValue(dest) of a short image
VShortMax == 32767
\* dmax = VPixelMaxValue(dest) of a float image (FLT_MAX); only ever compared
\* with squared distances, all far below it, so the largest model integer stands for it
VFloatMax == 2147483647

JunkValues == {0, 5}
PixelRepns == {"bit", "ubyte"}
OutputRepns == {"short", "float", "ubyte"}

Cells(nb, nr, nc) == (0 .. nb - 1) \X (0 .. nr - 1) \X (0 .. nc - 1)

AllCells == Cells(nbands, nrows, ncols)

IMIN(a, b) == IF a < b THEN a ELSE b

IMAX(a, b) == IF a > b THEN a ELSE b

(* ---------------- integer square roots ---------------- *)
RECURSIVE SqrtSearch(_, _, _)
\* largest k in lo .. hi-1 with k*k <= n, given lo*lo <= n < hi*hi
SqrtSearch(n, lo, hi) ==
  IF hi - lo <= 1 THEN lo
  ELSE LET mid == (lo + hi) \div 2
       IN IF mid * mid <= n THEN SqrtSearch(n, mid, hi)
          ELSE SqrtSearch(n, lo, mid)

\* (int) sqrt(x) for an integer-valued x >= 0
ISqrt(n) == SqrtSearch(n, 0, IMIN(n + 1, 46341))

\* sqrt((double) x) stored in a VFloat pixel, in units of 1/FScale
FloatSqrt(x) == ISqrt(x * FScale * FScale)

\* (VShort) VRint(10.0 * sqrt((double) x)): 10*sqrt(x) is never half-way
\* between two integers, so every rounding rule gives floor(10*sqrt(x) + 1/2)
RintTenSqrt(x) == (ISqrt(400 * x) + 1) \div 2

(* ---------------- first pass (columns) ---------------- *)
RECURSIVE ScanForward(_, _, _, _, _)
\* cc1 = c; while (cc1 < ncols && *srcpix++ == 0) cc1++;
ScanForward(s, b, r, cc1, nc) ==
  IF cc1 < nc /\ s[<<b, r, cc1>>] = 0 THEN ScanForward(s, b, r, cc1 + 1, nc)
  ELSE cc1

RECURSIVE ScanBackward(_, _, _, _)
\* cc2 = c; while (cc2 >= 0 && *srcpix-- == 0) cc2--;
ScanBackward(s, b, r, cc2) ==
  IF cc2 >= 0 /\ s[<<b, r, cc2>>] = 0 THEN ScanBackward(s, b, r, cc2 - 1)
  ELSE cc2

ForwardDist(cc1, c, nc) == IF cc1 >= nc THEN nc ELSE cc1 - c

\* VEDistFloat3d: d2 = (cc2 <= 0 ? ncols : (c - cc2))
BackwardDistFloat(cc2, c, nc) == IF cc2 <= 0 THEN nc ELSE c - cc2

\* VEDistShort3d: d2 = (cc2 < 0 ? ncols : (c - cc2))
BackwardDistShort(cc2, c, nc) == IF cc2 < 0 THEN nc ELSE c - cc2

FloatColumnValue(s, b, r, c, nc) ==
  IF s[<<b, r, c>>] = 1 THEN 0
  ELSE LET d1 == ForwardDist(ScanForward(s, b, r, c, nc), c, nc)
           d2 == BackwardDistFloat(ScanBackward(s, b, r, c), c, nc)
           d == IF d1 <= d2 THEN d1 ELSE d2
       IN d * d

FloatFirstPass(s, nb, nr, nc) ==
  [x \in Cells(nb, nr, nc) |-> FloatColumnValue(s, x[1], x[2], x[3], nc)]

\* for (c...) if (VPixel(src,b,r,c,VBit) == 1) goto n1;
RowHasForeground(s, b, r, nc) == \E c \in 0 .. nc - 1 : s[<<b, r, c>>] = 1

EmptyRowValue_NoHalf(nr) == nr * nr

\* VPixel(dest,b,r,c,VShort) = 0.5 * nrows * nrows; the double is truncated
\* by the conversion to VShort
EmptyRowValue(nr) == (nr * nr) \div 2

ShortColumnValue_FgOne(s, b, r, c, nr, nc) ==
  IF ~RowHasForeground(s, b, r, nc) THEN EmptyRowValue(nr)
  ELSE IF s[<<b, r, c>>] = 1 THEN 1
  ELSE LET d1 == ForwardDist(ScanForward(s, b, r, c, nc), c, nc)
           d2 == BackwardDistShort(ScanBackward(s, b, r, c), c, nc)
           d == IF d1 < d2 THEN d1 ELSE d2
       IN d * d

ShortColumnValue(s, b, r, c, nr, nc) ==
  IF ~RowHasForeground(s, b, r, nc) THEN EmptyRowValue(nr)
  ELSE IF s[<<b, r, c>>] = 1 THEN 0
  ELSE LET d1 == ForwardDist(ScanForward(s, b, r, c, nc), c, nc)
           d2 == BackwardDistShort(ScanBackward(s, b, r, c), c, nc)
           d == IF d1 < d2 THEN d1 ELSE d2
       IN d * d

ShortFirstPass(s, nb, nr, nc) ==
  [x \in Cells(nb, nr, nc) |-> ShortColumnValue(s, x[1], x[2], x[3], nr, nc)]

(* ---------------- second and third pass (rows, bands) ---------------- *)
\* istart = r - (int) g; if (istart < 0) istart = 0;
RowStart(r, g) == IF r - g < 0 THEN 0 ELSE r - g

BandStart_NoMargin(b, g) == IF b - g + 1 < 0 THEN 0 ELSE b - g + 1

\* istart = b - (int) g - 1; if (istart < 0) istart = 0;
BandStart(b, g) == IF b - g - 1 < 0 THEN 0 ELSE b - g - 1

WindowEnd_ClampShort(i, g, n) == IF i + g + 1 >= n THEN n - 1 ELSE i + g + 1

\* iend = i + (int) g + 1; if (iend >= n) iend = n;
WindowEnd(i, g, n) == IF i + g + 1 >= n THEN n ELSE i + g + 1

RECURSIVE ScanMin(_, _, _, _, _)
\* for (rr=istart; rr<iend; rr++) { u = array[rr] + (r-rr)*(r-rr); if (u < dmin) dmin = u; }
ScanMin(array, i, rr, iend, dmin) ==
  IF rr >= iend THEN dmin
  ELSE LET u == array[rr] + (i - rr) * (i - rr)
       IN ScanMin(array, i, rr + 1, iend, IF u < dmin THEN u ELSE dmin)

\* the value the second pass writes at row r of one (band, column) line
RowValue(array, r, n, dmax) ==
  LET g == ISqrt(array[r])
  IN ScanMin(array, r, RowStart(r, g), WindowEnd(r, g, n), dmax)

\* the value the third pass writes at band b of one (row, column) line
BandValue(array, b, n, dmax) ==
  LET g == ISqrt(array[b])
  IN ScanMin(array, b, BandStart(b, g), WindowEnd(b, g, n), dmax)

SecondPass(s, f, nb, nr, nc, dmax) ==
  [x \in Cells(nb, nr, nc) |->
     IF s[x] = 1 THEN f[x]
     ELSE LET array == [rr \in 0 .. nr - 1 |-> f[<<x[1], rr, x[3]>>]]
          IN RowValue(array, x[2], nr, dmax)]

ThirdPass(s, f, nb, nr, nc, dmax) ==
  [x \in Cells(nb, nr, nc) |->
     IF s[x] = 1 THEN f[x]
     ELSE LET array == [bb \in 0 .. nb - 1 |-> f[<<bb, x[2], x[3]>>]]
          IN BandValue(array, x[1], nb, dmax)]

(* ---------------- finalization ---------------- *)
FloatFinalize(f, nb, nr, nc) == [x \in Cells(nb, nr, nc) |-> FloatSqrt(f[x])]

ShortFinalize(f, nb, nr, nc) == [x \in Cells(nb, nr, nc) |-> RintTenSqrt(f[x])]

(* ---------------- the engines as functions of the volume ---------------- *)
VEDistFloat3d(s, nb, nr, nc) ==
  FloatFinalize(
    ThirdPass(s,
      SecondPass(s, FloatFirstPass(s, nb, nr, nc), nb, nr, nc, VFloatMax),
      nb, nr, nc, VFloatMax),
    nb, nr, nc)

VEDistShort3d(s, nb, nr, nc) ==
  ShortFinalize(
    ThirdPass(s,
      SecondPass(s, ShortFirstPass(s, nb, nr, nc), nb, nr, nc, VShortMax),
      nb, nr, nc, VShortMax),
    nb, nr, nc)

(* ---------------- the dispatcher ---------------- *)
Dispatch_OutputFirst(sr, rp) ==
  IF rp = "short" THEN "short"
  ELSE IF rp = "float" THEN "float"
  ELSE IF sr # "bit" THEN "InvalidInputKind"
  ELSE "UnsupportedOutputKind"

\* the route VEuclideanDist3d takes
Dispatch(sr, rp) ==
  IF sr # "bit" THEN "InvalidInputKind"
  ELSE IF rp = "short" THEN "short"
  ELSE IF rp = "float" THEN "float"
  ELSE "UnsupportedOutputKind"

\* VError reports the error and ends the call: nothing after it runs
VError(kind) ==
  /\ pc' = "failed"
  /\ err' = kind
  /\ UNCHANGED <<srcRepn, repn, nbands, nrows, ncols, src, supplied, dest,
                 invoked, ret>>

\* VSelectDestImage followed by VFillImage(dest, VAllBands, 0)
ZeroImage(nb, nr, nc) == [x \in Cells(nb, nr, nc) |-> 0]

(* ---------------- initial states ---------------- *)
Volumes(nb, nr, nc) ==
  IF nb * nr * nc <= MaxVoxels THEN [Cells(nb, nr, nc) -> {0, 1}]
  ELSE {[x \in Cells(nb, nr, nc) |-> v] : v \in {0, 1}}

Init ==
  /\ pc = "call"
  /\ srcRepn \in PixelRepns
  /\ repn \in OutputRepns
  /\ nbands \in 1 .. MaxBands
  /\ nrows \in 1 .. MaxRows
  /\ ncols \in 1 .. MaxCols
  /\ src \in Volumes(nbands, nrows, ncols)
  /\ supplied \in {[x \in Cells(nbands, nrows, ncols) |-> j] : j \in JunkValues}
  /\ dest = supplied
  /\ invoked = {}
  /\ err = "none"
  /\ ret = "none"

(* ---------------- actions ---------------- *)
Same == <<srcRepn, repn, nbands, nrows, ncols, src, supplied>>

RejectCall ==
  /\ pc = "call"
  /\ Dispatch(srcRepn, repn) \in {"InvalidInputKind", "UnsupportedOutputKind"}
  /\ VError(Dispatch(srcRepn, repn))

EnterFloat ==
  /\ pc = "call"
  /\ Dispatch(srcRepn, repn) = "float"
  /\ pc' = "entered"
  /\ invoked' = invoked \cup {"float"}
  /\ dest' = ZeroImage(nbands, nrows, ncols)
  /\ UNCHANGED <<Same, err, ret>>

EnterShort ==
  /\ pc = "call"
  /\ Dispatch(srcRepn, repn) = "short"
  /\ pc' = "entered"
  /\ invoked' = invoked \cup {"short"}
  /\ dest' = ZeroImage(nbands, nrows, ncols)
  /\ UNCHANGED <<Same, err, ret>>

FloatColumnPass ==
  /\ pc = "entered"
  /\ "float" \in invoked
  /\ pc' = "first"
  /\ dest' = FloatFirstPass(src, nbands, nrows, ncols)
  /\ UNCHANGED <<Same, invoked, err, ret>>

ShortColumnPass ==
  /\ pc = "entered"
  /\ "short" \in invoked
  /\ pc' = "first"
  /\ dest' = ShortFirstPass(src, nbands, nrows, ncols)
  /\ UNCHANGED <<Same, invoked, err, ret>>

FloatRowPass ==
  /\ pc = "first"
  /\ "float" \in invoked
  /\ pc' = "second"
  /\ dest' = SecondPass(src, dest, nbands, nrows, ncols, VFloatMax)
  /\ UNCHANGED <<Same, invoked, err, ret>>

ShortRowPass ==
  /\ pc = "first"
  /\ "short" \in invoked
  /\ pc' = "second"
  /\ dest' = SecondPass(src, dest, nbands, nrows, ncols, VShortMax)
  /\ UNCHANGED <<Same, invoked, err, ret>>

FloatBandPass ==
  /\ pc = "second"
  /\ "float" \in invoked
  /\ pc' = "third"
  /\ dest' = ThirdPass(src, dest, nbands, nrows, ncols, VFloatMax)
  /\ UNCHANGED <<Same, invoked, err, ret>>

ShortBandPass ==
  /\ pc = "second"
  /\ "short" \in invoked
  /\ pc' = "third"
  /\ dest' = ThirdPass(src, dest, nbands, nrows, ncols, VShortMax)
  /\ UNCHANGED <<Same, invoked, err, ret>>

FloatFinish ==
  /\ pc = "third"
  /\ "float" \in invoked
  /\ pc' = "done"
  /\ dest' = FloatFinalize(dest, nbands, nrows, ncols)
  /\ UNCHANGED <<Same, invoked, err, ret>>

ShortFinish ==
  /\ pc = "third"
  /\ "short" \in invoked
  /\ pc' = "done"
  /\ dest' = ShortFinalize(dest, nbands, nrows, ncols)
  /\ UNCHANGED <<Same, invoked, err, ret>>

Return ==
  /\ pc = "done"
  /\ pc' = "returned"
  /\ ret' = dest
  /\ UNCHANGED <<Same, dest, invoked, err>>

Next ==
  \/ RejectCall
  \/ EnterFloat
  \/ EnterShort
  \/ FloatColumnPass
  \/ ShortColumnPass
  \/ FloatRowPass
  \/ ShortRowPass
  \/ FloatBandPass
  \/ ShortBandPass
  \/ FloatFinish
  \/ ShortFinish
  \/ Return

Spec == Init /\ [][Next]_vars

\* the call runs to its end: nothing in it waits
FairSpec == Spec /\ WF_vars(Next)

(* ======================= the claims ======================= *)
Foreground == {x \in AllCells : src[x] = 1}

Background == AllCells \ Foreground

Min(S) == CHOOSE m \in S : \A k \in S : m <= k

Abs(n) == IF n < 0 THEN -n ELSE n

SqDist(x, y) ==
  (x[1] - y[1]) * (x[1] - y[1]) + (x[2] - y[2]) * (x[2] - y[2])
    + (x[3] - y[3]) * (x[3] - y[3])

\* squared Euclidean distance from x to the nearest foreground voxel
TrueSqDist(x) == Min({SqDist(x, y) : y \in Foreground})

\* round(10 * sqrt(q / 2)) for an integer q >= 0, from the definition of rounding
RoundTenRootHalf(q) ==
  CHOOSE k \in 0 .. 10 * q + 1 :
    /\ (k = 0 \/ (2 * k - 1) * (2 * k - 1) <= 200 * q)
    /\ 200 * q < (2 * k + 1) * (2 * k + 1)

\* round(10 * sqrt(v)) for an integer v >= 0
RoundTenRoot(v) == RoundTenRootHalf(2 * v)

\* round(10 * d) for a real-valued pixel d held in units of 1/FScale
RoundTenTimes(d) == (20 * d + FScale) \div (2 * FScale)

Engine == IF "float" \in invoked THEN "float" ELSE "short"

EngineMax == IF Engine = "float" THEN VFloatMax ELSE VShortMax

FirstField ==
  IF Engine = "float" THEN FloatFirstPass(src, nbands, nrows, ncols)
  ELSE ShortFirstPass(src, nbands, nrows, ncols)

SecondField == SecondPass(src, FirstField, nbands, nrows, ncols, EngineMax)

Mirror(x, axis) ==
  CASE axis = 1 -> <<nbands - 1 - x[1], x[2], x[3]>>
    [] axis = 2 -> <<x[1], nrows - 1 - x[2], x[3]>>
    [] axis = 3 -> <<x[1], x[2], ncols - 1 - x[3]>>

Reflect(f, axis) == [x \in AllCells |-> f[Mirror(x, axis)]]

EngineOutput(s) ==
  IF Engine = "float" THEN VEDistFloat3d(s, nbands, nrows, ncols)
  ELSE VEDistShort3d(s, nbands, nrows, ncols)

\* C1: with exactly one foreground voxel, the squared-distance field left by
\* the three passes equals, at every background voxel, the exact squared
\* Euclidean distance to that voxel; the float output is its square root and
\* the short output is round(10 x distance).
C1_SingleForegroundExact ==
  Cardinality(Foreground) = 1 =>
    \A x \in Background :
      /\ pc = "third" => dest[x] = TrueSqDist(x)
      /\ (pc = "done" /\ Engine = "float") => dest[x] = FloatSqrt(TrueSqDist(x))
      /\ (pc = "done" /\ Engine = "short") => dest[x] = RoundTenRoot(TrueSqDist(x))

\* C2: in a volume whose voxels are all foreground, every voxel of the
\* destination is 0 after each of the three passes and after finalization,
\* in both engines.
C2_AllForegroundZero ==
  (Foreground = AllCells /\ pc \in {"first", "second", "third", "done", "returned"})
    => \A x \in AllCells : dest[x] = 0

C2_Witness ==
  /\ pc = "done"
  /\ "short" \in invoked
  /\ nbands = 3 /\ nrows = 3 /\ ncols = 3
  /\ Foreground = AllCells
  /\ \A x \in AllCells : supplied[x] = 5 /\ dest[x] = 0

\* C3: the transform of the volume reflected along any one axis is the
\* reflection along that axis of the transform of the volume, voxel for
\* voxel, in both engines.
C3_ReflectionSymmetry ==
  pc = "done" =>
    \A axis \in 1 .. 3 : EngineOutput(Reflect(src, axis)) = Reflect(dest, axis)

\* C4: at every voxel the short engine's output differs by at most 1 from
\* round(10 x d), d being the float engine's output at that voxel of the
\* same volume.
C4_EncodingsAgree ==
  (pc = "done" /\ Engine = "short") =>
    \A x \in AllCells :
      Abs(dest[x] - RoundTenTimes(VEDistFloat3d(src, nbands, nrows, ncols)[x])) <= 1

\* C5: a call whose input is not single-bit fails with InvalidInputKind
\* whatever the requested output, enters no engine and leaves the supplied
\* destination unmodified; a single-bit input with an output kind other than
\* short or float fails with UnsupportedOutputKind, again with the
\* destination unmodified; otherwise exactly the engine of the requested
\* kind is invoked and its result is what the call returns.
C5_ValidateBeforeWork ==
  pc # "call" =>
    /\ srcRepn # "bit" =>
         (pc = "failed" /\ err = "InvalidInputKind" /\ invoked = {} /\ dest = supplied)
    /\ (srcRepn = "bit" /\ repn \notin {"short", "float"}) =>
         (pc = "failed" /\ err = "UnsupportedOutputKind" /\ invoked = {}
            /\ dest = supplied)
    /\ (srcRepn = "bit" /\ repn \in {"short", "float"}) =>
         /\ pc # "failed" /\ err = "none" /\ invoked = {repn}
         /\ pc = "returned" =>
              ret = IF repn = "float" THEN VEDistFloat3d(src, nbands, nrows, ncols)
                    ELSE VEDistShort3d(src, nbands, nrows, ncols)

C5_Witness ==
  /\ pc = "failed"
  /\ srcRepn = "ubyte" /\ repn = "short"
  /\ err = "InvalidInputKind"
  /\ invoked = {}
  /\ \A x \in AllCells : dest[x] = 5

\* C6 as stated: in a volume without any foreground voxel the call runs to
\* its end and every voxel holds squared distance ncols^2 (output ncols) in
\* the float engine and squared distance 0.5 x nrows^2 (output
\* round(10 x sqrt(0.5 x nrows^2))) in the short engine.
C6_NoForegroundSentinel_Original ==
  Foreground = {} =>
    /\ pc \notin {"returned", "failed"} => ENABLED Next
    /\ \A x \in AllCells :
         /\ (pc \in {"first", "second", "third"} /\ Engine = "float")
              => dest[x] = ncols * ncols
         /\ (pc \in {"done", "returned"} /\ Engine = "float")
              => dest[x] = FScale * ncols
         /\ (pc \in {"first", "second", "third"} /\ Engine = "short")
              => 2 * dest[x] = nrows * nrows
         /\ (pc \in {"done", "returned"} /\ Engine = "short")
              => dest[x] = RoundTenRootHalf(nrows * nrows)

\* the squared-distance field and the output of a volume without foreground
NoForegroundValues ==
  Foreground = {} =>
    \A x \in AllCells :
      /\ (pc \in {"first", "second", "third"} /\ Engine = "float")
           => dest[x] = ncols * ncols
      /\ (pc \in {"done", "returned"} /\ Engine = "float")
           => dest[x] = FScale * ncols
      /\ (pc \in {"first", "second", "third"} /\ Engine = "short")
           => (2 * dest[x] <= nrows * nrows /\ nrows * nrows < 2 * dest[x] + 2)
      /\ (pc \in {"done", "returned"} /\ Engine = "short")
           => dest[x] = RoundTenRoot((nrows * nrows) \div 2)

\* C6 as amended: in a volume without any foreground voxel the call runs to
\* its end and every voxel holds squared distance ncols^2 (output ncols) in
\* the float engine and the truncated squared distance floor(0.5 x nrows^2)
\* (output round(10 x sqrt(floor(0.5 x nrows^2)))) in the short engine.
C6_NoForegroundSentinel ==
  /\ []NoForegroundValues
  /\ (Foreground = {}) ~> (pc \in {"returned", "failed"})

C6_Witness ==
  /\ pc = "returned"
  /\ Engine = "short"
  /\ nbands = 1 /\ nrows = 1 /\ ncols = 1
  /\ src[<<0, 0, 0>>] = 0
  /\ ret[<<0, 0, 0>>] = 0

\* steps from column x[3] to the nearest foreground voxel of the row at a
\* column >= x[3] (fwd) or <= x[3] (~fwd); ncols if there is none
RowSteps(x, fwd) ==
  LET cols == {c \in 0 .. ncols - 1 :
                 /\ src[<<x[1], x[2], c>>] = 1
                 /\ IF fwd THEN c >= x[3] ELSE c <= x[3]}
  IN IF cols = {} THEN ncols ELSE Min({Abs(c - x[3]) : c \in cols})

\* C7: after the column pass, every background voxel of a row that has a
\* foreground voxel holds min(d1, d2)^2, d1 and d2 being the steps to the
\* nearest foreground voxel of the row at a column >= c and <= c (ncols if
\* none), wherever in the row the foreground voxels are, in both engines.
C7_ColumnPassExact ==
  pc = "first" =>
    \A x \in Background :
      RowHasForeground(src, x[1], x[2], ncols) =>
        dest[x] = IMIN(RowSteps(x, TRUE), RowSteps(x, FALSE))
                    * IMIN(RowSteps(x, TRUE), RowSteps(x, FALSE))

\* C8: in a volume that has a foreground voxel, the column-pass value of
\* every voxel of a row without foreground is at least the true squared
\* Euclidean distance from that voxel to the nearest foreground voxel.
C8_EmptyRowUpperBound ==
  (pc = "first" /\ Foreground # {}) =>
    \A x \in AllCells :
      ~RowHasForeground(src, x[1], x[2], ncols) => dest[x] >= TrueSqDist(x)

\* C9: the row pass writes, at every background voxel (b,r,c), the minimum
\* over ALL rows rr of scratch[rr] + (r-rr)^2, scratch being the column-pass
\* values of the (b,c) line; the value written is never greater than
\* scratch[r]; foreground voxels are not written.
C9_RowPassFullMin ==
  [][(pc = "first" /\ pc' = "second") =>
       \A x \in AllCells :
         IF src[x] = 1 THEN dest'[x] = dest[x]
         ELSE /\ dest'[x] =
                   Min({dest[<<x[1], rr, x[3]>>] + (x[2] - rr) * (x[2] - rr) :
                          rr \in 0 .. nrows - 1})
              /\ dest'[x] <= dest[x]]_vars

C9_Witness ==
  /\ pc = "second"
  /\ \E x \in Background : x[2] + ISqrt(FirstField[x]) + 1 < nrows
  /\ \E x \in Background : x[2] - ISqrt(FirstField[x]) > 0
  /\ \E x \in Background : dest[x] < FirstField[x]

\* C10: the value the band pass writes with the lower window bound
\* max(0, b-floor(g)-1) is, at every voxel, the value it would write with
\* the row pass's bound max(0, b-floor(g)), in both engines.
C10_BandMarginRedundant ==
  [][(pc = "second" /\ pc' = "third") =>
       \A x \in AllCells :
         dest'[x] =
           IF src[x] = 1 THEN dest[x]
           ELSE RowValue([bb \in 0 .. nbands - 1 |-> dest[<<bb, x[2], x[3]>>]],
                         x[1], nbands, EngineMax)]_vars

C10_Witness ==
  /\ pc = "third"
  /\ \E x \in Background :
       /\ x[1] - ISqrt(SecondField[x]) - 1 >= 0
       /\ dest[x] < SecondField[x]

====
